---------------------------- MODULE Spec2Model ----------------------------
(***************************************************************************)
(* Model of goog.net.jsloader (closure/goog/net/jsloader.js): the serial   *)
(* script loader safeLoadMany with its shared queue, the single load       *)
(* safeLoad with its timer and script node, and safeLoadAndVerify with the *)
(* global verification objects.  goog.async.Deferred, on which the loader  *)
(* is built, is modelled by its callback-chain semantics (fire_,           *)
(* continue_, cancel).  The second part models the storage mechanisms:     *)
(* goog.storage.mechanism.IEUserData (storage/mechanism/ieuserdata.js) and *)
(* goog.storage.mechanism.PrefixedMechanism wrapped around it.             *)
(***************************************************************************)
EXTENDS Integers, Sequences, FiniteSets, TLC

VARIABLES
    scriptsToLoad_,          \* goog.net.jsloader.scriptsToLoad_: URIs waiting
    scriptLoadingDeferred_,  \* goog.net.jsloader.scriptLoadingDeferred_ (0: not yet set)
    loads,                   \* one record per safeLoad call: script node, timer, request
    dfds,                    \* the goog.async.Deferred created by safeLoad call i
    vdfds,                   \* the wrapping Deferred of safeLoadAndVerify (per load)
    verifyObjs,              \* goog.global['closure_verification']
    batches,                 \* history: the non-empty safeLoadMany calls and what they returned
    lastCall                 \* history: the last API call and the handle it returned

VARIABLES
    storageNode_,            \* IEUserData.storageNode_: the element and its attributes
    storeCall                \* history: the last call on a storage mechanism

loaderVars == << scriptsToLoad_, scriptLoadingDeferred_, loads, dfds, vdfds,
                 verifyObjs, batches, lastCall >>

storeVars == << storageNode_, storeCall >>

vars == << scriptsToLoad_, scriptLoadingDeferred_, loads, dfds, vdfds,
           verifyObjs, batches, lastCall, storageNode_, storeCall >>

----------------------------------------------------------------------------
(* Bounds of the model *)

\* URIs handed to safeLoadMany in one behaviour, over all its calls
MaxUris == 3
\* longest URI list handed to one safeLoadMany call
MaxBatch == 3
\* URIs handed to safeLoadMany in one behaviour when the callers pass every
\* kind of timeout option
MaxTimedUris == 2
\* direct safeLoad calls in one behaviour
MaxSingle == 2
\* safeLoadAndVerify calls that start a load in one behaviour
MaxVerify == 2
\* attributes the storage node holds at a time
MaxEntries == 3

----------------------------------------------------------------------------
(* Program constants *)

DEFAULT_TIMEOUT == 5000

LOAD_ERROR == 0
TIMEOUT == 1
VERIFY_ERROR == 2
VERIFY_OBJECT_ALREADY_EXISTS == 3

\* goog.net.jsloader.Options objects the callers pass.  A missing field is
\* an undefined property.
OptionsSet ==
    { [cleanupWhenDone |-> FALSE],
      [timeout |-> 1000, cleanupWhenDone |-> TRUE],
      [timeout |-> 0],
      [timeout |-> -1, cleanupWhenDone |-> TRUE] }

\* verificationObjName arguments, and the values a loaded script stores
VerifyNames == {"objA"}
VerifyValues == {1, 2}

\* script.readyState as seen by the onload/onreadystatechange handler
ReadyStates == {"undefined", "loading", "loaded", "complete"}

----------------------------------------------------------------------------
(* Values carried by a Deferred *)

Undefined == [k |-> "undefined", v |-> 0]
Null == [k |-> "null", v |-> 0]
Error(code) == [k |-> "jsloader.Error", v |-> code]
CanceledError == [k |-> "CanceledError", v |-> 0]
DeferredRef(d) == [k |-> "Deferred", v |-> d]
Object(v) == [k |-> "object", v |-> v]

\* new goog.async.Deferred(): not fired, empty callback sequence
NewDeferred ==
    [fired |-> FALSE, hadError |-> FALSE, result |-> Undefined,
     blocked |-> FALSE, sequence |-> << >>]

\* the program state the callbacks read and write
World ==
    [loads |-> loads, dfds |-> dfds, vdfds |-> vdfds,
     scriptsToLoad_ |-> scriptsToLoad_, verifyObjs |-> verifyObjs]

Apply(w) ==
    /\ loads' = w.loads
    /\ dfds' = w.dfds
    /\ vdfds' = w.vdfds
    /\ scriptsToLoad_' = w.scriptsToLoad_
    /\ verifyObjs' = w.verifyObjs

----------------------------------------------------------------------------
(* goog.net.jsloader.cleanup_ *)

clearTimeout(w, id) ==
    IF id \in DOMAIN w.loads /\ w.loads[id].timer = "armed"
    THEN [w EXCEPT !.loads[id].timer = "cleared"]
    ELSE w

\* faulty variant: the handlers stay on the node
cleanup_KeepsHandlers(w, scriptNode, removeScriptNode, opt_timeout) ==
    LET w1 == IF opt_timeout # 0 THEN clearTimeout(w, opt_timeout) ELSE w
    IN [w1 EXCEPT !.loads[scriptNode].removeTasks =
                      IF removeScriptNode THEN @ + 1 ELSE @]

cleanup_(w, scriptNode, removeScriptNode, opt_timeout) ==
    LET w1 == IF opt_timeout # 0 THEN clearTimeout(w, opt_timeout) ELSE w
    IN [w1 EXCEPT !.loads[scriptNode].handlers = FALSE,
                  !.loads[scriptNode].removeTasks =
                      IF removeScriptNode THEN @ + 1 ELSE @]

----------------------------------------------------------------------------
(* goog.net.jsloader.safeLoad: creates the script node, the request and    *)
(* the Deferred, arms the timer, attaches the handlers, appends the node.  *)
(* The new load is the last element of w.loads.                            *)

\* faulty variant: a timeout of 0 is taken as absent (options.timeout || DEFAULT_TIMEOUT)
timeoutDuration_Falsy(options) ==
    IF "timeout" \in DOMAIN options /\ options.timeout # 0
    THEN options.timeout ELSE DEFAULT_TIMEOUT

timeoutDuration(options) ==
    IF "timeout" \in DOMAIN options THEN options.timeout ELSE DEFAULT_TIMEOUT

safeLoad(w, trustedUri, opt_options, via, name) ==
    LET id == Len(w.loads) + 1
        dur == timeoutDuration(opt_options)
        node == [uri |-> trustedUri, options |-> opt_options,
                 via |-> via, name |-> name,
                 timeout_ |-> IF dur > 0 THEN id ELSE 0,
                 timer |-> IF dur > 0 THEN "armed" ELSE "none",
                 duration |-> IF dur > 0 THEN dur ELSE 0,
                 handlers |-> TRUE,
                 inDocument |-> TRUE,
                 removeTasks |-> 0,
                 stored |-> 0,
                 settledWith |-> Undefined]
    IN [w EXCEPT !.loads = Append(@, node),
                 !.dfds = Append(@, NewDeferred),
                 !.vdfds = Append(@, NewDeferred)]

----------------------------------------------------------------------------
(* popAndLoadNextScript, the closure of safeLoadMany *)

\* faulty variant: the next script is loaded at once instead of when this one settles
RECURSIVE popAndLoadNextScript_NoWait(_, _)
popAndLoadNextScript_NoWait(w, opt_options) ==
    LET trustedUri == Head(w.scriptsToLoad_)
        w1 == [w EXCEPT !.scriptsToLoad_ = Tail(@)]
        w2 == safeLoad(w1, trustedUri, opt_options, "safeLoadMany", "")
    IN IF Len(w2.scriptsToLoad_) > 0
       THEN popAndLoadNextScript_NoWait(w2, opt_options)
       ELSE w2

\* faulty variant: addCallback instead of addBoth, the drain stops at a failed load
popAndLoadNextScript_AddCallback(w, opt_options) ==
    LET trustedUri == Head(w.scriptsToLoad_)
        w1 == [w EXCEPT !.scriptsToLoad_ = Tail(@)]
        w2 == safeLoad(w1, trustedUri, opt_options, "safeLoadMany", "")
        deferred == Len(w2.loads)
    IN IF Len(w2.scriptsToLoad_) > 0
       THEN [w2 EXCEPT !.dfds[deferred].sequence =
                Append(@, [callback |-> "popAndLoadNextScript",
                           errback |-> "none",
                           options |-> opt_options, target |-> 0])]
       ELSE w2

\* faulty variant: the URI is taken from the end of the queue (pop for shift)
popAndLoadNextScript_TakesLast(w, opt_options) ==
    LET trustedUri == w.scriptsToLoad_[Len(w.scriptsToLoad_)]
        w1 == [w EXCEPT !.scriptsToLoad_ = SubSeq(@, 1, Len(@) - 1)]
        w2 == safeLoad(w1, trustedUri, opt_options, "safeLoadMany", "")
        deferred == Len(w2.loads)
    IN IF Len(w2.scriptsToLoad_) > 0
       THEN [w2 EXCEPT !.dfds[deferred].sequence =
                Append(@, [callback |-> "popAndLoadNextScript",
                           errback |-> "popAndLoadNextScript",
                           options |-> opt_options, target |-> 0])]
       ELSE w2

\* faulty variant: the continuation is attached only while two or more URIs wait
popAndLoadNextScript_ForgetsLast(w, opt_options) ==
    LET trustedUri == Head(w.scriptsToLoad_)
        w1 == [w EXCEPT !.scriptsToLoad_ = Tail(@)]
        w2 == safeLoad(w1, trustedUri, opt_options, "safeLoadMany", "")
        deferred == Len(w2.loads)
    IN IF Len(w2.scriptsToLoad_) > 1
       THEN [w2 EXCEPT !.dfds[deferred].sequence =
                Append(@, [callback |-> "popAndLoadNextScript",
                           errback |-> "popAndLoadNextScript",
                           options |-> opt_options, target |-> 0])]
       ELSE w2

popAndLoadNextScript(w, opt_options) ==
    LET trustedUri == Head(w.scriptsToLoad_)
        w1 == [w EXCEPT !.scriptsToLoad_ = Tail(@)]
        w2 == safeLoad(w1, trustedUri, opt_options, "safeLoadMany", "")
        deferred == Len(w2.loads)
    IN IF Len(w2.scriptsToLoad_) > 0
       THEN [w2 EXCEPT !.dfds[deferred].sequence =
                Append(@, [callback |-> "popAndLoadNextScript",
                           errback |-> "popAndLoadNextScript",
                           options |-> opt_options, target |-> 0])]
       ELSE w2


----------------------------------------------------------------------------
(* The wrapping Deferred of safeLoadAndVerify: it carries no callback of   *)
(* the loader, so firing it only records the result.                       *)

verifyDeferredCallback(w, s, res) ==
    [w EXCEPT !.vdfds[s] = [@ EXCEPT !.fired = TRUE, !.hadError = FALSE,
                                     !.result = res]]

verifyDeferredErrback(w, s, res) ==
    [w EXCEPT !.vdfds[s] = [@ EXCEPT !.fired = TRUE, !.hadError = TRUE,
                                     !.result = res]]

\* faulty variant: the result is handed over without the test that it is defined
verifyCallback_NoDefinedTest(w, s) ==
    LET verificationObjName == w.loads[s].name
        result == w.verifyObjs[verificationObjName]
    IN [verifyDeferredCallback(w, s, result)
           EXCEPT !.verifyObjs[verificationObjName] = Undefined]

\* faulty variant: the verification object is not deleted after it was handed over
verifyCallback_NoDelete(w, s) ==
    LET verificationObjName == w.loads[s].name
        result == w.verifyObjs[verificationObjName]
    IN IF result # Undefined
       THEN verifyDeferredCallback(w, s, result)
       ELSE verifyDeferredErrback(w, s, Error(VERIFY_ERROR))

\* sendDeferred.addCallback(function() {...}) of safeLoadAndVerify
verifyCallback(w, s) ==
    LET verificationObjName == w.loads[s].name
        result == w.verifyObjs[verificationObjName]
    IN IF result # Undefined
       THEN [verifyDeferredCallback(w, s, result)
                EXCEPT !.verifyObjs[verificationObjName] = Undefined]
       ELSE verifyDeferredErrback(w, s, Error(VERIFY_ERROR))

\* faulty variant: the error is passed on without deleting the verification object
verifyErrback_NoDelete(w, s, error) ==
    verifyDeferredErrback(w, s, error)

\* sendDeferred.addErrback(function(error) {...}) of safeLoadAndVerify
verifyErrback(w, s, error) ==
    LET verificationObjName == w.loads[s].name
        w1 == IF w.verifyObjs[verificationObjName] # Undefined
              THEN [w EXCEPT !.verifyObjs[verificationObjName] = Undefined]
              ELSE w
    IN verifyDeferredErrback(w1, s, error)

----------------------------------------------------------------------------
(* goog.async.Deferred: updateResult_, fire_, continue_, callback, errback *)

updateResult_(w, d, isSuccess, res) ==
    [w EXCEPT !.dfds[d] = [@ EXCEPT !.fired = TRUE, !.hadError = ~isSuccess,
                                    !.result = res]]

RECURSIVE fire_(_, _)

\* the callback a blocked Deferred d adds to the Deferred it waits for
continue_(w, d, isSuccess, res) ==
    fire_(updateResult_([w EXCEPT !.dfds[d].blocked = FALSE], d, isSuccess, res), d)

\* Runs the callback sequence of d until it is empty or d is blocked on a
\* Deferred returned by a callback.
fire_(w, d) ==
    LET D == w.dfds[d] IN
    IF D.sequence = << >> \/ D.blocked THEN w
    ELSE
      LET e == Head(D.sequence)
          f == IF D.hadError THEN e.errback ELSE e.callback
          w1 == [w EXCEPT !.dfds[d].sequence = Tail(@)]
      IN CASE f = "popAndLoadNextScript" ->
                 \* the callback returns the next load's Deferred: d takes it
                 \* as its result, is no longer in error, and blocks on it
                 LET w2 == popAndLoadNextScript(w1, e.options)
                     ret == Len(w2.loads)
                 IN [w2 EXCEPT
                       !.dfds[d] = [@ EXCEPT !.hadError = FALSE,
                                             !.result = DeferredRef(ret),
                                             !.blocked = TRUE],
                       !.dfds[ret].sequence =
                           Append(@, [callback |-> "continue_",
                                      errback |-> "continue_",
                                      options |-> e.options, target |-> d])]
           [] f = "continue_" ->
                 fire_(continue_(w1, e.target, ~D.hadError, D.result), d)
           [] f = "verifyCallback" -> fire_(verifyCallback(w1, d), d)
           [] f = "verifyErrback" -> fire_(verifyErrback(w1, d, D.result), d)
           [] OTHER -> fire_(w1, d)

callback(w, d, res) == fire_(updateResult_(w, d, TRUE, res), d)

errback(w, d, res) == fire_(updateResult_(w, d, FALSE, res), d)

----------------------------------------------------------------------------
(* goog.net.jsloader.cancel_, the onCancelFunction of a safeLoad Deferred, *)
(* and goog.async.Deferred.prototype.cancel                                *)

\* faulty variant: the cancel function removes the node but leaves the timer armed
cancel_KeepsTimer(w, request) ==
    cleanup_(w, request, TRUE, 0)

cancel_(w, request) ==
    cleanup_(w, request, TRUE, w.loads[request].timeout_)

RECURSIVE cancel(_, _)
cancel(w, d) ==
    LET D == w.dfds[d] IN
    IF ~D.fired
    THEN LET w1 == cancel_(w, d)
             w2 == [w1 EXCEPT !.loads[d].settledWith = CanceledError]
         IN errback(w2, d, CanceledError)
    ELSE IF D.result.k = "Deferred" THEN cancel(w, D.result.v)
    ELSE w

\* cancel of the Deferred safeLoadAndVerify returns: its onCancelFunction is
\* sendDeferred.cancel
verifyDeferredCancel(w, s) ==
    IF ~w.vdfds[s].fired
    THEN LET w1 == cancel(w, s)
         IN IF ~w1.vdfds[s].fired
            THEN verifyDeferredErrback(w1, s, CanceledError)
            ELSE w1
    ELSE w

----------------------------------------------------------------------------
(* The handlers safeLoad attaches *)

\* faulty variant: the timeout removes the node only when cleanupWhenDone is set
timeoutHandler_CleanupWhenDone(w, s) ==
    LET removeScriptNode ==
            IF "cleanupWhenDone" \in DOMAIN w.loads[s].options
            THEN w.loads[s].options.cleanupWhenDone ELSE FALSE
        w1 == cleanup_([w EXCEPT !.loads[s].timer = "fired"], s,
                       removeScriptNode, 0)
        w2 == [w1 EXCEPT !.loads[s].settledWith = Error(TIMEOUT)]
    IN errback(w2, s, Error(TIMEOUT))

\* window.setTimeout(function() {...}, timeoutDuration)
timeoutHandler(w, s) ==
    LET w1 == cleanup_([w EXCEPT !.loads[s].timer = "fired"], s, TRUE, 0)
        w2 == [w1 EXCEPT !.loads[s].settledWith = Error(TIMEOUT)]
    IN errback(w2, s, Error(TIMEOUT))

\* faulty variant: a loaded script node is always removed
onloadHandler_AlwaysRemoves(w, s, readyState) ==
    IF readyState \in {"undefined", "loaded", "complete"}
    THEN LET w1 == cleanup_(w, s, TRUE, w.loads[s].timeout_)
             w2 == [w1 EXCEPT !.loads[s].settledWith = Null]
         IN callback(w2, s, Null)
    ELSE w

\* script.onload = script.onreadystatechange = function() {...}
onloadHandler(w, s, readyState) ==
    IF readyState \in {"undefined", "loaded", "complete"}
    THEN LET removeScriptNode ==
                 IF "cleanupWhenDone" \in DOMAIN w.loads[s].options
                 THEN w.loads[s].options.cleanupWhenDone ELSE FALSE
             w1 == cleanup_(w, s, removeScriptNode, w.loads[s].timeout_)
             w2 == [w1 EXCEPT !.loads[s].settledWith = Null]
         IN callback(w2, s, Null)
    ELSE w

\* script.onerror = function() {...}
onerrorHandler(w, s) ==
    LET w1 == cleanup_(w, s, TRUE, w.loads[s].timeout_)
        w2 == [w1 EXCEPT !.loads[s].settledWith = Error(LOAD_ERROR)]
    IN errback(w2, s, Error(LOAD_ERROR))

----------------------------------------------------------------------------
(* The API functions as state transformers: each yields the new program    *)
(* state w, the new scriptLoadingDeferred_ and the handle it returns.      *)

ExistingDeferred(d) == [kind |-> "Deferred", id |-> d]
VerifyDeferred(s) == [kind |-> "verifyDeferred", id |-> s]
DeferredSucceed(res) == [kind |-> "Deferred.succeed", result |-> res]
DeferredFail(res) == [kind |-> "Deferred.fail", result |-> res]

\* faulty variant: the empty list is tested only after the test for a running drain
safeLoadManyCall_LateEmptyTest(w, sld, trustedUris, opt_options) ==
    LET isAnotherModuleLoading == Len(w.scriptsToLoad_)
        w1 == [w EXCEPT !.scriptsToLoad_ = @ \o trustedUris]
    IN IF isAnotherModuleLoading # 0
       THEN [w |-> w1, sld |-> sld, ret |-> ExistingDeferred(sld)]
       ELSE IF Len(trustedUris) = 0
       THEN [w |-> w, sld |-> sld, ret |-> DeferredSucceed(Null)]
       ELSE LET w2 == popAndLoadNextScript(w1, opt_options)
            IN [w |-> w2, sld |-> Len(w2.loads),
                ret |-> ExistingDeferred(Len(w2.loads))]

\* faulty variant: a call that joins a drain hands its options to the
\* continuation of the drain
safeLoadManyCall_LateOptions(w, sld, trustedUris, opt_options) ==
    IF Len(trustedUris) = 0
    THEN [w |-> w, sld |-> sld, ret |-> DeferredSucceed(Null)]
    ELSE
      LET isAnotherModuleLoading == Len(w.scriptsToLoad_)
          w1 == [w EXCEPT !.scriptsToLoad_ = @ \o trustedUris]
      IN IF isAnotherModuleLoading # 0
         THEN [w |-> [w1 EXCEPT !.dfds =
                        [d \in DOMAIN @ |->
                           [@[d] EXCEPT !.sequence =
                              [i \in DOMAIN @ |->
                                 IF @[i].callback = "popAndLoadNextScript"
                                 THEN [@[i] EXCEPT !.options = opt_options]
                                 ELSE @[i]]]]],
               sld |-> sld, ret |-> ExistingDeferred(sld)]
         ELSE LET w2 == popAndLoadNextScript(w1, opt_options)
              IN [w |-> w2, sld |-> Len(w2.loads),
                  ret |-> ExistingDeferred(Len(w2.loads))]

\* goog.net.jsloader.safeLoadMany(trustedUris, opt_options)
safeLoadManyCall(w, sld, trustedUris, opt_options) ==
    IF Len(trustedUris) = 0
    THEN [w |-> w, sld |-> sld, ret |-> DeferredSucceed(Null)]
    ELSE
      LET isAnotherModuleLoading == Len(w.scriptsToLoad_)
          w1 == [w EXCEPT !.scriptsToLoad_ = @ \o trustedUris]
      IN IF isAnotherModuleLoading # 0
         THEN [w |-> w1, sld |-> sld, ret |-> ExistingDeferred(sld)]
         ELSE LET w2 == popAndLoadNextScript(w1, opt_options)
              IN [w |-> w2, sld |-> Len(w2.loads),
                  ret |-> ExistingDeferred(Len(w2.loads))]

\* faulty variant: the test for an existing verification object is left out
safeLoadAndVerifyCall_NoExistsTest(w, trustedUri, verificationObjName, options) ==
    LET w1 == safeLoad(w, trustedUri, options, "safeLoadAndVerify",
                       verificationObjName)
        sendDeferred == Len(w1.loads)
        w2 == [w1 EXCEPT !.dfds[sendDeferred].sequence =
                  @ \o << [callback |-> "verifyCallback", errback |-> "none",
                           options |-> options, target |-> 0],
                          [callback |-> "none", errback |-> "verifyErrback",
                           options |-> options, target |-> 0] >>]
    IN [w |-> w2, ret |-> VerifyDeferred(sendDeferred)]

\* faulty variant: the load is started before the verification object is tested
safeLoadAndVerifyCall_LateExistsTest(w, trustedUri, verificationObjName, options) ==
    LET w1 == safeLoad(w, trustedUri, options, "safeLoadAndVerify",
                       verificationObjName)
        sendDeferred == Len(w1.loads)
        w2 == [w1 EXCEPT !.dfds[sendDeferred].sequence =
                  @ \o << [callback |-> "verifyCallback", errback |-> "none",
                           options |-> options, target |-> 0],
                          [callback |-> "none", errback |-> "verifyErrback",
                           options |-> options, target |-> 0] >>]
    IN IF w.verifyObjs[verificationObjName] # Undefined
       THEN [w |-> w1, ret |-> DeferredFail(Error(VERIFY_OBJECT_ALREADY_EXISTS))]
       ELSE [w |-> w2, ret |-> VerifyDeferred(sendDeferred)]

\* goog.net.jsloader.safeLoadAndVerify(trustedUri, verificationObjName, options)
safeLoadAndVerifyCall(w, trustedUri, verificationObjName, options) ==
    IF w.verifyObjs[verificationObjName] # Undefined
    THEN [w |-> w, ret |-> DeferredFail(Error(VERIFY_OBJECT_ALREADY_EXISTS))]
    ELSE
      LET w1 == safeLoad(w, trustedUri, options, "safeLoadAndVerify",
                         verificationObjName)
          sendDeferred == Len(w1.loads)
          w2 == [w1 EXCEPT !.dfds[sendDeferred].sequence =
                    @ \o << [callback |-> "verifyCallback", errback |-> "none",
                             options |-> options, target |-> 0],
                            [callback |-> "none", errback |-> "verifyErrback",
                             options |-> options, target |-> 0] >>]
      IN [w |-> w2, ret |-> VerifyDeferred(sendDeferred)]

----------------------------------------------------------------------------
(* Strings of the storage mechanisms are sequences of one-character        *)
(* strings, so that concatenation, substr and the key encoding are         *)
(* computed character by character.                                        *)

Min(a, b) == IF a <= b THEN a ELSE b

\* String.prototype.substr(start, length) and substr(start)
substr(str, start, length) == SubSeq(str, start + 1, Min(start + length, Len(str)))

substrFrom(str, start) == SubSeq(str, start + 1, Len(str))

\* str.replace(/[...]/g, map): every character in the domain of map is
\* replaced by its image
RECURSIVE replace(_, _)
replace(str, map) ==
    IF str = << >> THEN << >>
    ELSE (IF Head(str) \in DOMAIN map THEN map[Head(str)] ELSE << Head(str) >>)
           \o replace(Tail(str), map)

\* the characters encodeURIComponent escapes, with their escapes
PercentEncoded ==
    (":" :> << "%", "3", "A" >>) @@ ("%" :> << "%", "2", "5" >>)

URIError == << "URIError" >>

\* a code unit of a surrogate pair that stands alone in the string
LoneSurrogate == "D800"

\* encodeURIComponent: a string with a lone surrogate is a URIError
encodeURIComponent(str) ==
    IF \E i \in DOMAIN str : str[i] = LoneSurrogate
    THEN URIError
    ELSE replace(str, PercentEncoded)

\* the character of a %XX escape
PercentDecoded ==
    (<< "3", "A" >> :> ":") @@ (<< "2", "5" >> :> "%") @@
    (<< "2", "E" >> :> ".") @@ (<< "2", "1" >> :> "!") @@
    (<< "7", "E" >> :> "~") @@ (<< "2", "A" >> :> "*") @@
    (<< "2", "7" >> :> "'") @@ (<< "2", "8" >> :> "(") @@
    (<< "2", "9" >> :> ")")

\* decodeURIComponent: a % that starts no known escape is a URIError
RECURSIVE decodeURIComponent(_)
decodeURIComponent(str) ==
    IF str = << >> THEN << >>
    ELSE IF Head(str) # "%"
    THEN LET rest == decodeURIComponent(Tail(str))
         IN IF rest = URIError THEN URIError ELSE << Head(str) >> \o rest
    ELSE IF Len(str) >= 3 /\ SubSeq(str, 2, 3) \in DOMAIN PercentDecoded
    THEN LET rest == decodeURIComponent(SubSeq(str, 4, Len(str)))
         IN IF rest = URIError THEN URIError
            ELSE << PercentDecoded[SubSeq(str, 2, 3)] >> \o rest
    ELSE URIError

----------------------------------------------------------------------------
(* goog.storage.mechanism.IEUserData *)

ENCODE_MAP ==
    ("." :> << ".", "2", "E" >>) @@ ("!" :> << ".", "2", "1" >>) @@
    ("~" :> << ".", "7", "E" >>) @@ ("*" :> << ".", "2", "A" >>) @@
    ("'" :> << ".", "2", "7" >>) @@ ("(" :> << ".", "2", "8" >>) @@
    (")" :> << ".", "2", "9" >>) @@ ("%" :> << "." >>)

encodeKey_(key) ==
    LET encoded == encodeURIComponent(key)
    IN IF encoded = URIError THEN URIError
       ELSE << "_" >> \o replace(encoded, ENCODE_MAP)

decodeKey_(key) ==
    LET decoded == decodeURIComponent(replace(key, "." :> << "%" >>))
    IN IF decoded = URIError THEN URIError ELSE substrFrom(decoded, 1)

\* what a storage call throws
NoError == "none"
QUOTA_EXCEEDED == "Storage mechanism: Quota exceeded"
INVALID_VALUE == "Storage mechanism: Invalid value was encountered"
TypeError == "TypeError"

\* a string value
String(v) == [k |-> "string", v |-> v]

\* the element of the mechanism; null is TRUE when storageNode_ is null
NewNode == [null |-> FALSE, attributes |-> << >>]

\* Element.setAttribute, getAttribute, removeAttribute
setAttribute(node, name, value) ==
    LET item == [nodeName |-> name, nodeValue |-> value]
        attributes == node.attributes
    IN IF \E i \in DOMAIN attributes : attributes[i].nodeName = name
       THEN [node EXCEPT !.attributes =
                [i \in DOMAIN attributes |->
                   IF attributes[i].nodeName = name THEN item ELSE attributes[i]]]
       ELSE [node EXCEPT !.attributes = Append(attributes, item)]

getAttribute(node, name) ==
    LET hit == { i \in DOMAIN node.attributes : node.attributes[i].nodeName = name }
    IN IF hit = {} THEN Null
       ELSE node.attributes[CHOOSE i \in hit : TRUE].nodeValue

removeAttribute(node, name) ==
    [node EXCEPT !.attributes = SelectSeq(@, LAMBDA a : a.nodeName # name)]

isAvailable(node) == ~node.null

\* what a call on a mechanism without storage node does
NullDereference(node) == [node |-> node, ret |-> Undefined, thrown |-> TypeError]

\* what a call does whose key encodeKey_ cannot encode: the URIError of
\* encodeURIComponent leaves the call before the node is touched
KeyNotEncodable(node) == [node |-> node, ret |-> Undefined, thrown |-> "URIError"]

\* faulty variant: a failed save makes the mechanism unavailable
saveNode_Disables(node, saveOk) ==
    IF saveOk THEN [node |-> node, thrown |-> NoError]
    ELSE [node |-> [node EXCEPT !.null = TRUE], thrown |-> QUOTA_EXCEEDED]

\* saveNode_: saveOk tells whether storageNode_.save(storageKey_) returns
saveNode_(node, saveOk) ==
    IF saveOk THEN [node |-> node, thrown |-> NoError]
    ELSE [node |-> node, thrown |-> QUOTA_EXCEEDED]

IEUserData_set(node, key, value, saveOk) ==
    IF node.null THEN NullDereference(node)
    ELSE LET name == encodeKey_(key)
             saved == saveNode_(setAttribute(node, name, value), saveOk)
         IN IF name = URIError THEN KeyNotEncodable(node)
            ELSE [node |-> saved.node, ret |-> Undefined, thrown |-> saved.thrown]

IEUserData_get(node, key) ==
    IF node.null THEN NullDereference(node)
    ELSE LET name == encodeKey_(key)
             value == getAttribute(node, name)
         IN IF name = URIError THEN KeyNotEncodable(node)
            ELSE IF value.k # "string" /\ value # Null
            THEN [node |-> node, ret |-> Undefined, thrown |-> INVALID_VALUE]
            ELSE [node |-> node, ret |-> value, thrown |-> NoError]

IEUserData_remove(node, key, saveOk) ==
    IF node.null THEN NullDereference(node)
    ELSE LET name == encodeKey_(key)
             saved == saveNode_(removeAttribute(node, name), saveOk)
         IN IF name = URIError THEN KeyNotEncodable(node)
            ELSE [node |-> saved.node, ret |-> Undefined, thrown |-> saved.thrown]

\* the loop of clear: the attributes are removed from the last to the first
RECURSIVE removeAttributes(_, _)
removeAttributes(node, left) ==
    IF left > 0
    THEN removeAttributes(removeAttribute(node, node.attributes[left].nodeName),
                          left - 1)
    ELSE node

IEUserData_clear(node, saveOk) ==
    IF node.null THEN NullDereference(node)
    ELSE LET saved == saveNode_(removeAttributes(node, Len(node.attributes)), saveOk)
         IN [node |-> saved.node, ret |-> Undefined, thrown |-> saved.thrown]

\* newIter.next of IEUserData.__iterator__: i counts the attributes consumed
IEUserData_next(node, opt_keys, i) ==
    IF i >= Len(node.attributes)
    THEN [done |-> TRUE, value |-> << >>, i |-> i]
    ELSE LET item == node.attributes[i + 1]
         IN [done |-> FALSE,
             value |-> IF opt_keys THEN decodeKey_(item.nodeName)
                       ELSE item.nodeValue,
             i |-> i + 1]

\* the iterator of IEUserData consumed to its end, from attribute i on
RECURSIVE IEUserData_iterate(_, _, _)
IEUserData_iterate(node, opt_keys, i) ==
    LET it == IEUserData_next(node, opt_keys, i)
    IN IF it.done THEN << >>
       ELSE << it.value >> \o IEUserData_iterate(node, opt_keys, it.i)

----------------------------------------------------------------------------
(* goog.storage.mechanism.PrefixedMechanism over an IEUserData mechanism.  *)
(* Each function also yields the calls it made on the wrapped mechanism.   *)

\* the constructor: prefix_ is the prefix followed by '::'
PrefixedMechanism(prefix) == [prefix_ |-> prefix \o << ":", ":" >>]

\* a call on the wrapped mechanism, as recorded
MechanismCall(op, key, value, thrown) ==
    [op |-> op, key |-> key, value |-> value, thrown |-> thrown]

\* faulty variant: set catches what the wrapped mechanism throws
PrefixedMechanism_set_Catches(self, node, key, value, saveOk) ==
    LET r == IEUserData_set(node, self.prefix_ \o key, value, saveOk)
    IN [node |-> r.node, ret |-> r.ret, thrown |-> NoError,
        log |-> << MechanismCall("set", self.prefix_ \o key, value, r.thrown) >>]

PrefixedMechanism_set(self, node, key, value, saveOk) ==
    LET r == IEUserData_set(node, self.prefix_ \o key, value, saveOk)
    IN [node |-> r.node, ret |-> r.ret, thrown |-> r.thrown,
        log |-> << MechanismCall("set", self.prefix_ \o key, value, r.thrown) >>]

PrefixedMechanism_get(self, node, key) ==
    LET r == IEUserData_get(node, self.prefix_ \o key)
    IN [node |-> r.node, ret |-> r.ret, thrown |-> r.thrown,
        log |-> << MechanismCall("get", self.prefix_ \o key, Null, r.thrown) >>]

PrefixedMechanism_remove(self, node, key, saveOk) ==
    LET r == IEUserData_remove(node, self.prefix_ \o key, saveOk)
    IN [node |-> r.node, ret |-> r.ret, thrown |-> r.thrown,
        log |-> << MechanismCall("remove", self.prefix_ \o key, Null, r.thrown) >>]

\* subIter = this.mechanism_[Symbol.iterator](): the keys of the wrapped
\* mechanism
subIter_next(node, i) == IEUserData_next(node, TRUE, i)

\* faulty variant: one entry of another namespace is skipped, not all of them
PrefixedMechanism_next_SkipsOne(self, node, opt_keys, i) ==
    LET it0 == subIter_next(node, i)
        it == IF ~it0.done
                 /\ substr(it0.value, 0, Len(self.prefix_)) # self.prefix_
              THEN subIter_next(node, it0.i) ELSE it0
    IN IF it.done THEN it
       ELSE [it EXCEPT !.value =
                IF opt_keys THEN substrFrom(it.value, Len(self.prefix_))
                ELSE IEUserData_get(node, it.value).ret]

\* the while loop of newIter.next: it is the last result of subIter.next()
RECURSIVE PrefixedMechanism_skip(_, _, _)
PrefixedMechanism_skip(self, node, it) ==
    IF it.done THEN it
    ELSE IF substr(it.value, 0, Len(self.prefix_)) # self.prefix_
    THEN PrefixedMechanism_skip(self, node, subIter_next(node, it.i))
    ELSE it

\* newIter.next of PrefixedMechanism.__iterator__(opt_keys)
PrefixedMechanism_next(self, node, opt_keys, i) ==
    LET it == PrefixedMechanism_skip(self, node, subIter_next(node, i))
    IN IF it.done THEN it
       ELSE [it EXCEPT !.value =
                IF opt_keys THEN substrFrom(it.value, Len(self.prefix_))
                ELSE IEUserData_get(node, it.value).ret]

\* the iterator is consumed to its end: the values it yields, in order
RECURSIVE PrefixedMechanism_iterate(_, _, _, _)
PrefixedMechanism_iterate(self, node, opt_keys, i) ==
    LET it == PrefixedMechanism_next(self, node, opt_keys, i)
    IN IF it.done THEN << >>
       ELSE << it.value >> \o PrefixedMechanism_iterate(self, node, opt_keys, it.i)

----------------------------------------------------------------------------
(* Initial state: nothing queued, no script loaded, no verification object *)

Init ==
    /\ scriptsToLoad_ = << >>
    /\ scriptLoadingDeferred_ = 0
    /\ loads = << >>
    /\ dfds = << >>
    /\ vdfds = << >>
    /\ verifyObjs = [n \in VerifyNames |-> Undefined]
    /\ batches = << >>
    /\ lastCall = [op |-> "none"]
    /\ storageNode_ = NewNode
    /\ storeCall = [via |-> "none", op |-> "none", prefix |-> << >>,
                    key |-> << >>, value |-> Null, saveOk |-> TRUE,
                    ret |-> Undefined, thrown |-> NoError, log |-> << >>,
                    afterFailure |-> FALSE]

\* the URIs are numbered in the order they are handed to safeLoadMany
NextUri == IF batches = << >> THEN 1 ELSE batches[Len(batches)].last + 1

LoadsVia(via) == { s \in DOMAIN loads : loads[s].via = via }

\* the indices a load can have
LoadIds == 1 .. (MaxUris + MaxSingle + MaxVerify)

\* the loads safeLoadMany has started and that have not settled
InFlight == { s \in LoadsVia("safeLoadMany") : ~dfds[s].fired }

\* URI u of safeLoadMany has been loaded: its load was started and has settled
Loaded(u) == \E s \in LoadsVia("safeLoadMany") : loads[s].uri = u /\ dfds[s].fired

\* no URI of safeLoadMany is pending or in flight
Idle == scriptsToLoad_ = << >> /\ InFlight = {}

\* the earlier batches that still have a URI to load
Draining ==
    { i \in DOMAIN batches :
        \E u \in batches[i].first .. batches[i].last : ~Loaded(u) }

----------------------------------------------------------------------------
(* Actions: the calls of the API *)

SafeLoadMany(n, opt_options) ==
    /\ NextUri - 1 + n <= MaxUris
    /\ LET trustedUris == [i \in 1..n |-> NextUri + i - 1]
           r == safeLoadManyCall(World, scriptLoadingDeferred_, trustedUris,
                                 opt_options)
       IN /\ Apply(r.w)
          /\ scriptLoadingDeferred_' = r.sld
          /\ batches' = IF n = 0 THEN batches
                        ELSE Append(batches,
                                 [first |-> NextUri, last |-> NextUri + n - 1,
                                  options |-> opt_options, handle |-> r.ret.id,
                                  idle |-> Idle, draining |-> Draining,
                                  isAnotherModuleLoading |->
                                      scriptsToLoad_ # << >>])
          /\ lastCall' = [op |-> "safeLoadMany", n |-> n, ret |-> r.ret]
    /\ UNCHANGED << storageNode_, storeCall >>

\* safeLoadMany called with any of the timeout options
SafeLoadManyTimed(n, opt_options) ==
    /\ NextUri - 1 + n <= MaxTimedUris
    /\ SafeLoadMany(n, opt_options)

SafeLoad(opt_options) ==
    /\ Cardinality(LoadsVia("safeLoad")) < MaxSingle
    /\ LET w == safeLoad(World, 0, opt_options, "safeLoad", "")
       IN /\ Apply(w)
          /\ lastCall' = [op |-> "safeLoad", ret |-> ExistingDeferred(Len(w.loads))]
    /\ UNCHANGED << scriptLoadingDeferred_, batches, storageNode_, storeCall >>

SafeLoadAndVerify(verificationObjName, options) ==
    /\ Cardinality(LoadsVia("safeLoadAndVerify")) < MaxVerify
    /\ LET r == safeLoadAndVerifyCall(World, 0, verificationObjName, options)
       IN /\ Apply(r.w)
          /\ lastCall' = [op |-> "safeLoadAndVerify",
                          name |-> verificationObjName, ret |-> r.ret]
    /\ UNCHANGED << scriptLoadingDeferred_, batches, storageNode_, storeCall >>

\* the handles callers hold: the Deferreds returned by safeLoad and by
\* safeLoadMany
CallerDeferreds ==
    LoadsVia("safeLoad") \cup { batches[i].handle : i \in DOMAIN batches }

Cancel(d) ==
    /\ d \in CallerDeferreds
    /\ Apply(cancel(World, d))
    /\ lastCall' = [op |-> "none"]
    /\ UNCHANGED << scriptLoadingDeferred_, batches, storageNode_, storeCall >>

CancelVerify(s) ==
    /\ s \in LoadsVia("safeLoadAndVerify")
    /\ Apply(verifyDeferredCancel(World, s))
    /\ lastCall' = [op |-> "none"]
    /\ UNCHANGED << scriptLoadingDeferred_, batches, storageNode_, storeCall >>

----------------------------------------------------------------------------
(* Actions: the host's events.  An event runs the handler that is on the   *)
(* node when it is dispatched: the one safeLoad attached, or               *)
(* goog.nullFunction once cleanup_ has replaced it.                        *)

\* load / readystatechange event of script s
LoadEvent(s, readyState) ==
    /\ s \in DOMAIN loads
    /\ Apply(IF loads[s].handlers THEN onloadHandler(World, s, readyState)
             ELSE World)
    /\ lastCall' = [op |-> "none"]
    /\ UNCHANGED << scriptLoadingDeferred_, batches, storageNode_, storeCall >>

\* error event of script s
ErrorEvent(s) ==
    /\ s \in DOMAIN loads
    /\ Apply(IF loads[s].handlers THEN onerrorHandler(World, s) ELSE World)
    /\ lastCall' = [op |-> "none"]
    /\ UNCHANGED << scriptLoadingDeferred_, batches, storageNode_, storeCall >>

\* the timer armed by safeLoad elapses
TimerFires(s) ==
    /\ s \in DOMAIN loads
    /\ loads[s].timer = "armed"
    /\ Apply(timeoutHandler(World, s))
    /\ lastCall' = [op |-> "none"]
    /\ UNCHANGED << scriptLoadingDeferred_, batches, storageNode_, storeCall >>

\* the zero-delay task of cleanup_: goog.dom.removeNode(scriptNode)
RemoveNodeTask(s) ==
    /\ s \in DOMAIN loads
    /\ loads[s].removeTasks > 0
    /\ loads' = [loads EXCEPT ![s].removeTasks = @ - 1, ![s].inDocument = FALSE]
    /\ lastCall' = [op |-> "none"]
    /\ UNCHANGED << scriptsToLoad_, scriptLoadingDeferred_, dfds, vdfds,
                    verifyObjs, batches, storageNode_, storeCall >>

\* the script fetched for safeLoadAndVerify runs and stores its
\* verification object
ScriptSetsVerifyObj(s, v) ==
    /\ s \in LoadsVia("safeLoadAndVerify")
    /\ loads[s].stored = 0
    /\ loads' = [loads EXCEPT ![s].stored = v]
    /\ verifyObjs' = [verifyObjs EXCEPT ![loads[s].name] = Object(v)]
    /\ lastCall' = [op |-> "none"]
    /\ UNCHANGED << scriptsToLoad_, scriptLoadingDeferred_, dfds, vdfds, batches,
                    storageNode_, storeCall >>

----------------------------------------------------------------------------
(* Actions: the calls on the storage mechanisms *)

\* prefixes of the wrappers, keys their callers use, keys other clients
\* store in the wrapped mechanism directly, keys of the direct callers of
\* IEUserData, and the values stored
Prefixes == { << "a" >>, << "a", ":", ":", "b" >> }
WrapperKeys == { << "k" >>, << "b", ":", ":", "k" >> }
ForeignKeys == { << "a", ":" >> }
IEKeys == { << "k" >>, << "a", ":" >>, << ".", "%" >> }
Values == { String(1), String(2) }

\* the node has room for an attribute of this key
HasRoom(key) ==
    \/ Len(storageNode_.attributes) < MaxEntries
    \/ getAttribute(storageNode_, encodeKey_(key)) # Null

\* the call before this one on the IEUserData mechanism threw QUOTA_EXCEEDED
AfterFailure == storeCall.via = "IEUserData" /\ storeCall.thrown = QUOTA_EXCEEDED

PrefixedSet(prefix, key, value, saveOk) ==
    /\ HasRoom(prefix \o << ":", ":" >> \o key)
    /\ LET r == PrefixedMechanism_set(PrefixedMechanism(prefix), storageNode_,
                                      key, value, saveOk)
       IN /\ storageNode_' = r.node
          /\ storeCall' = [via |-> "PrefixedMechanism", op |-> "set",
                           prefix |-> prefix, key |-> key, value |-> value,
                           saveOk |-> saveOk, ret |-> r.ret, thrown |-> r.thrown,
                           log |-> r.log, afterFailure |-> FALSE]
    /\ UNCHANGED loaderVars

PrefixedGet(prefix, key) ==
    /\ LET r == PrefixedMechanism_get(PrefixedMechanism(prefix), storageNode_, key)
       IN /\ storageNode_' = r.node
          /\ storeCall' = [via |-> "PrefixedMechanism", op |-> "get",
                           prefix |-> prefix, key |-> key, value |-> Null,
                           saveOk |-> TRUE, ret |-> r.ret, thrown |-> r.thrown,
                           log |-> r.log, afterFailure |-> FALSE]
    /\ UNCHANGED loaderVars

PrefixedRemove(prefix, key, saveOk) ==
    /\ LET r == PrefixedMechanism_remove(PrefixedMechanism(prefix), storageNode_,
                                         key, saveOk)
       IN /\ storageNode_' = r.node
          /\ storeCall' = [via |-> "PrefixedMechanism", op |-> "remove",
                           prefix |-> prefix, key |-> key, value |-> Null,
                           saveOk |-> saveOk, ret |-> r.ret, thrown |-> r.thrown,
                           log |-> r.log, afterFailure |-> FALSE]
    /\ UNCHANGED loaderVars

\* __iterator__(opt_keys) of a wrapper, consumed to its end
PrefixedIterate(prefix, opt_keys) ==
    /\ storeCall' = [via |-> "PrefixedMechanism",
                     op |-> IF opt_keys THEN "keys" ELSE "values",
                     prefix |-> prefix, key |-> << >>, value |-> Null,
                     saveOk |-> TRUE,
                     ret |-> PrefixedMechanism_iterate(PrefixedMechanism(prefix),
                                                       storageNode_, opt_keys, 0),
                     thrown |-> NoError, log |-> << >>,
                     afterFailure |-> FALSE]
    /\ UNCHANGED storageNode_
    /\ UNCHANGED loaderVars

IESet(key, value, saveOk) ==
    /\ HasRoom(key)
    /\ LET r == IEUserData_set(storageNode_, key, value, saveOk)
       IN /\ storageNode_' = r.node
          /\ storeCall' = [via |-> "IEUserData", op |-> "set",
                           prefix |-> << >>, key |-> key, value |-> value,
                           saveOk |-> saveOk, ret |-> r.ret, thrown |-> r.thrown,
                           log |-> << >>, afterFailure |-> AfterFailure]
    /\ UNCHANGED loaderVars

IEGet(key) ==
    /\ LET r == IEUserData_get(storageNode_, key)
       IN /\ storageNode_' = r.node
          /\ storeCall' = [via |-> "IEUserData", op |-> "get",
                           prefix |-> << >>, key |-> key, value |-> Null,
                           saveOk |-> TRUE, ret |-> r.ret, thrown |-> r.thrown,
                           log |-> << >>, afterFailure |-> AfterFailure]
    /\ UNCHANGED loaderVars

IERemove(key, saveOk) ==
    /\ LET r == IEUserData_remove(storageNode_, key, saveOk)
       IN /\ storageNode_' = r.node
          /\ storeCall' = [via |-> "IEUserData", op |-> "remove",
                           prefix |-> << >>, key |-> key, value |-> Null,
                           saveOk |-> saveOk, ret |-> r.ret, thrown |-> r.thrown,
                           log |-> << >>, afterFailure |-> AfterFailure]
    /\ UNCHANGED loaderVars

IEIterate(opt_keys) ==
    /\ ~storageNode_.null
    /\ storeCall' = [via |-> "IEUserData",
                     op |-> IF opt_keys THEN "keys" ELSE "values",
                     prefix |-> << >>, key |-> << >>, value |-> Null,
                     saveOk |-> TRUE,
                     ret |-> IEUserData_iterate(storageNode_, opt_keys, 0),
                     thrown |-> NoError, log |-> << >>,
                     afterFailure |-> AfterFailure]
    /\ UNCHANGED storageNode_
    /\ UNCHANGED loaderVars

IEClear(saveOk) ==
    /\ LET r == IEUserData_clear(storageNode_, saveOk)
       IN /\ storageNode_' = r.node
          /\ storeCall' = [via |-> "IEUserData", op |-> "clear",
                           prefix |-> << >>, key |-> << >>, value |-> Null,
                           saveOk |-> saveOk, ret |-> r.ret, thrown |-> r.thrown,
                           log |-> << >>, afterFailure |-> AfterFailure]
    /\ UNCHANGED loaderVars

----------------------------------------------------------------------------
(* Specifications.  The three entry points share no state but the script   *)
(* nodes they create, so each is explored with its own callers: SpecMany   *)
(* the queue of safeLoadMany, SpecLoad single safeLoad calls with the node *)
(* removal task, SpecVerify safeLoadAndVerify.  Spec composes them all.    *)

\* options of the safeLoadMany callers: one with the default timer, one
\* without a timer
ManyOptions == { [cleanupWhenDone |-> FALSE], [timeout |-> 0, cleanupWhenDone |-> TRUE] }

NextMany ==
    \/ \E n \in 0..MaxBatch, o \in ManyOptions : SafeLoadMany(n, o)
    \/ \E d \in LoadIds : Cancel(d)
    \/ \E s \in LoadIds, rs \in ReadyStates : LoadEvent(s, rs)
    \/ \E s \in LoadIds : ErrorEvent(s)
    \/ \E s \in LoadIds : TimerFires(s)

SpecMany == Init /\ [][NextMany]_vars

\* a load that has not settled settles: by its load event, its error event,
\* its timer or a cancellation
SettlesLoad ==
    \E s \in LoadIds :
      /\ s \in DOMAIN loads
      /\ ~dfds[s].fired
      /\ \/ \E rs \in ReadyStates : LoadEvent(s, rs)
         \/ ErrorEvent(s)
         \/ TimerFires(s)
         \/ Cancel(s)
      /\ dfds'[s].fired

\* every started load eventually settles
FairMany == SpecMany /\ WF_vars(SettlesLoad)

NextLoad ==
    \/ \E o \in OptionsSet : SafeLoad(o)
    \/ \E d \in LoadIds : Cancel(d)
    \/ \E s \in LoadIds, rs \in ReadyStates : LoadEvent(s, rs)
    \/ \E s \in LoadIds : ErrorEvent(s)
    \/ \E s \in LoadIds : TimerFires(s)
    \/ \E s \in LoadIds : RemoveNodeTask(s)

SpecLoad == Init /\ [][NextLoad]_vars

\* every task the host has queued is eventually run
FairLoad == SpecLoad /\ \A s \in LoadIds : WF_vars(RemoveNodeTask(s))

\* the queue of safeLoadMany with callers that pass every kind of timeout
NextTimer ==
    \/ \E n \in 0..MaxBatch, o \in OptionsSet : SafeLoadManyTimed(n, o)
    \/ \E d \in LoadIds : Cancel(d)
    \/ \E s \in LoadIds, rs \in ReadyStates : LoadEvent(s, rs)
    \/ \E s \in LoadIds : ErrorEvent(s)
    \/ \E s \in LoadIds : TimerFires(s)

SpecTimer == Init /\ [][NextTimer]_vars

VerifyOptions == { [cleanupWhenDone |-> FALSE], [timeout |-> 0, cleanupWhenDone |-> TRUE] }

NextVerify ==
    \/ \E nm \in VerifyNames, o \in VerifyOptions : SafeLoadAndVerify(nm, o)
    \/ \E s \in LoadIds : CancelVerify(s)
    \/ \E s \in LoadIds, rs \in ReadyStates : LoadEvent(s, rs)
    \/ \E s \in LoadIds : ErrorEvent(s)
    \/ \E s \in LoadIds : TimerFires(s)
    \/ \E s \in LoadIds, v \in VerifyValues : ScriptSetsVerifyObj(s, v)

SpecVerify == Init /\ [][NextVerify]_vars

\* two wrappers over one IEUserData mechanism that other clients use too
NextPrefixed ==
    \/ \E p \in Prefixes, k \in WrapperKeys, v \in Values, ok \in BOOLEAN :
         PrefixedSet(p, k, v, ok)
    \/ \E p \in Prefixes, k \in WrapperKeys : PrefixedGet(p, k)
    \/ \E p \in Prefixes, k \in WrapperKeys, ok \in BOOLEAN : PrefixedRemove(p, k, ok)
    \/ \E p \in Prefixes, opt_keys \in BOOLEAN : PrefixedIterate(p, opt_keys)
    \/ \E k \in ForeignKeys, v \in Values, ok \in BOOLEAN : IESet(k, v, ok)

SpecPrefixed == Init /\ [][NextPrefixed]_vars

\* an IEUserData mechanism used directly
NextIE ==
    \/ \E k \in IEKeys, v \in Values, ok \in BOOLEAN : IESet(k, v, ok)
    \/ \E k \in IEKeys : IEGet(k)
    \/ \E k \in IEKeys, ok \in BOOLEAN : IERemove(k, ok)
    \/ \E ok \in BOOLEAN : IEClear(ok)

SpecIE == Init /\ [][NextIE]_vars

\* the keys of the callers of SpecKeys: keys whose encodings would collide
\* if an escape were not told apart from the text it looks like, and a key
\* that is not a well-formed string
KeyStrings ==
    { << "k" >>, << "." >>, << "%" >>, << ".", "2", "E" >>,
      << "%", "2", "E" >>, << "k", LoneSurrogate >> }

\* IEUserData called with keys of every kind; every save succeeds
NextKeys ==
    \/ \E k \in KeyStrings, v \in Values : IESet(k, v, TRUE)
    \/ \E k \in KeyStrings : IEGet(k)
    \/ \E k \in KeyStrings : IERemove(k, TRUE)
    \/ \E opt_keys \in BOOLEAN : IEIterate(opt_keys)

SpecKeys == Init /\ [][NextKeys]_vars

Next ==
    \/ NextMany \/ NextTimer \/ NextLoad \/ NextVerify \/ NextPrefixed
    \/ NextIE \/ NextKeys

Spec == Init /\ [][Next]_vars

----------------------------------------------------------------------------
(* Properties of safeLoadMany, checked under SpecMany *)

\* what a caller sees of a handle: the Deferred has fired and is not waiting
\* for a Deferred one of its callbacks returned
HandleSettled(d) == dfds[d].fired /\ ~dfds[d].blocked

\* the load that safeLoadMany started for URI u, as a set
LoadOf(u) == { s \in LoadsVia("safeLoadMany") : loads[s].uri = u }

\* C1: in a batch handed to safeLoadMany while nothing was pending or in
\* flight, the load of a URI exists only once the load of the URI before it
\* in the batch has settled, and was started after it.
C1_BatchLoadsOneAtATime ==
    \A i \in DOMAIN batches :
      batches[i].idle =>
        \A u \in (batches[i].first + 1) .. batches[i].last :
          \A s \in LoadOf(u) :
            \E t \in LoadOf(u - 1) : t < s /\ dfds[t].fired

\* a batch of three URIs, submitted idle, whose third load has been started
C1_Witness ==
    \E i \in DOMAIN batches :
      /\ batches[i].idle
      /\ batches[i].last = batches[i].first + 2
      /\ LoadOf(batches[i].last) # {}

\* C2 (as claimed): at most one load issued by safeLoadMany is in flight,
\* and a batch submitted while an earlier load has not settled got the
\* shared handle of the batch before it.
C2_AtMostOneInFlight ==
    /\ Cardinality(InFlight) <= 1
    /\ \A j \in DOMAIN batches :
         (j > 1 /\ ~batches[j].idle) => batches[j].handle = batches[j - 1].handle

\* C3 (as claimed): a batch submitted while an earlier batch was draining
\* holds the same handle as that batch, and the handle is not settled before
\* every URI of both batches has been loaded.
C3_SharedHandleSettlesLast ==
    \A j \in DOMAIN batches : \A i \in batches[j].draining :
      /\ batches[j].handle = batches[i].handle
      /\ HandleSettled(batches[j].handle) =>
           \A u \in (batches[i].first .. batches[i].last)
                      \cup (batches[j].first .. batches[j].last) : Loaded(u)

\* the load that carries the drain: the one safeLoadMany started last
Latest == CHOOSE s \in LoadsVia("safeLoadMany") :
             \A t \in LoadsVia("safeLoadMany") : t <= s

\* C4: when the load started last by safeLoadMany settles, in whatever way
\* (load, error, timeout, cancel), while URIs are pending, the first
\* pending URI is popped and its load is started in the same step.
C4_DrainAdvances ==
    [][ (/\ LoadsVia("safeLoadMany") # {}
         /\ ~dfds[Latest].fired
         /\ dfds'[Latest].fired
         /\ scriptsToLoad_ # << >>)
        => (/\ scriptsToLoad_' = Tail(scriptsToLoad_)
            /\ Len(loads') = Len(loads) + 1
            /\ loads'[Len(loads')].uri = Head(scriptsToLoad_)
            /\ loads'[Len(loads')].via = "safeLoadMany"
            /\ ~dfds'[Len(loads')].fired) ]_vars

\* a cancelled load and a timed-out load were each followed by the next URI
C4_Witness ==
    \E s, t \in LoadsVia("safeLoadMany") :
      /\ loads[s].settledWith = CanceledError
      /\ loads[t].settledWith = Error(TIMEOUT)
      /\ LoadOf(loads[s].uri + 1) # {}
      /\ LoadOf(loads[t].uri + 1) # {}

\* C5 (as claimed): once the handle of a batch has settled, it is a failure
\* if a URI of the batch failed with LOAD_ERROR or TIMEOUT.
C5_FailureSurfaces ==
    \A i \in DOMAIN batches :
      (/\ HandleSettled(batches[i].handle)
       /\ \E u \in batches[i].first .. batches[i].last : \E s \in LoadOf(u) :
            loads[s].settledWith \in {Error(LOAD_ERROR), Error(TIMEOUT)})
      => dfds[batches[i].handle].hadError

\* C6: a safeLoadMany call with no URI returns an already succeeded handle
\* and leaves the queue, the shared handle, the loads and their Deferreds as
\* they were.
C6_EmptyBatchChangesNothing ==
    [][ (lastCall'.op = "safeLoadMany" /\ lastCall'.n = 0)
        => (/\ lastCall'.ret = DeferredSucceed(Null)
            /\ UNCHANGED << scriptsToLoad_, scriptLoadingDeferred_, loads,
                            dfds, vdfds, verifyObjs, batches >>) ]_vars

\* an empty call answered while a drain was in progress
C6_Witness ==
    /\ lastCall = [op |-> "safeLoadMany", n |-> 0, ret |-> DeferredSucceed(Null)]
    /\ scriptsToLoad_ # << >>
    /\ InFlight # {}

----------------------------------------------------------------------------
(* Properties of safeLoad, checked under SpecLoad and FairLoad *)

TimedOut(s) == s \in DOMAIN loads /\ loads[s].timer = "fired"

NodeRemoved(s) == s \in DOMAIN loads /\ ~loads[s].inDocument

\* C7: once the timer of a load has fired, its Deferred is a failure with
\* code TIMEOUT and the removal of the script node is queued or done,
\* whatever cleanupWhenDone says; and the node does leave the document.
C7_TimeoutFailsAndRemovesNode ==
    /\ [](\A s \in LoadIds :
            TimedOut(s) =>
              /\ loads[s].duration > 0
              /\ dfds[s].fired
              /\ dfds[s].hadError
              /\ dfds[s].result = Error(TIMEOUT)
              /\ (loads[s].removeTasks > 0 \/ ~loads[s].inDocument))
    /\ \A s \in LoadIds : TimedOut(s) ~> NodeRemoved(s)

\* a timed-out load without cleanupWhenDone whose node has been removed
C7_Witness ==
    \E s \in LoadsVia("safeLoad") :
      /\ TimedOut(s)
      /\ ~loads[s].options.cleanupWhenDone
      /\ ~loads[s].inDocument
      /\ dfds[s].result = Error(TIMEOUT)

----------------------------------------------------------------------------
(* Properties of safeLoadAndVerify, checked under SpecVerify *)

ALREADY_EXISTS == DeferredFail(Error(VERIFY_OBJECT_ALREADY_EXISTS))

\* the earlier safeLoadAndVerify calls with this name whose handle has not
\* settled
Unsettled(name) ==
    { s \in LoadsVia("safeLoadAndVerify") :
        loads[s].name = name /\ ~vdfds[s].fired }

\* C8 (as claimed): a safeLoadAndVerify call made while the handle of an
\* earlier call with the same name has not settled starts no load: in the
\* state after a call that returned a new handle, no other handle of that
\* name is unsettled.
C8_SecondCallAlwaysFails ==
    (lastCall.op = "safeLoadAndVerify" /\ lastCall.ret.kind = "verifyDeferred")
    => Unsettled(lastCall.name) \subseteq {lastCall.ret.id}

\* C8 (amended): a safeLoadAndVerify call made while the handle of an earlier
\* call with the same name has not settled fails at once with
\* VERIFY_OBJECT_ALREADY_EXISTS exactly when the named verification object
\* is defined at the call; otherwise it starts a load of its own.
C8_SecondCallFailsIfObjectSet ==
    [][ (lastCall'.op = "safeLoadAndVerify" /\ Unsettled(lastCall'.name) # {})
        => IF verifyObjs[lastCall'.name] # Undefined
           THEN lastCall'.ret = ALREADY_EXISTS /\ loads' = loads
           ELSE /\ lastCall'.ret = VerifyDeferred(Len(loads'))
                /\ Len(loads') = Len(loads) + 1 ]_vars

\* a second call was rejected while the first handle of the name was pending
C8_Witness ==
    /\ lastCall.op = "safeLoadAndVerify"
    /\ lastCall.ret = ALREADY_EXISTS
    /\ Unsettled(lastCall.name) # {}

VerifyFailed(s, code) ==
    vdfds[s].fired /\ vdfds[s].hadError /\ vdfds[s].result = Error(code)

\* C9 (as claimed): if the load of a safeLoadAndVerify call completed and
\* its script has not stored the verification object, the handle is a
\* failure with VERIFY_ERROR.
C9_UnsetByScriptGivesVerifyError ==
    \A s \in LoadsVia("safeLoadAndVerify") :
      (loads[s].settledWith = Null /\ loads[s].stored = 0)
      => VerifyFailed(s, VERIFY_ERROR)

\* C9 (amended): if the load completes while the named verification object
\* is undefined, the handle settles in that step as a failure with
\* VERIFY_ERROR.
C9_UndefinedObjectGivesVerifyError ==
    [][ \A s \in LoadsVia("safeLoadAndVerify") :
          (/\ loads[s].settledWith = Undefined
           /\ loads'[s].settledWith = Null
           /\ verifyObjs[loads[s].name] = Undefined)
          => (/\ ~vdfds[s].fired
              /\ vdfds'[s].fired
              /\ vdfds'[s].hadError
              /\ vdfds'[s].result = Error(VERIFY_ERROR)) ]_vars

\* a handle that failed with VERIFY_ERROR after its load completed
C9_Witness ==
    \E s \in LoadsVia("safeLoadAndVerify") :
      loads[s].settledWith = Null /\ VerifyFailed(s, VERIFY_ERROR)

\* C10 (as claimed): if the script has stored value v and then its load
\* completes, the handle succeeds with v and the object is deleted.
C10_ScriptValueReturned ==
    [][ \A s \in LoadsVia("safeLoadAndVerify") :
          (/\ loads[s].settledWith = Undefined
           /\ loads'[s].settledWith = Null
           /\ loads[s].stored # 0)
          => (/\ vdfds'[s].fired
              /\ ~vdfds'[s].hadError
              /\ vdfds'[s].result = Object(loads[s].stored)
              /\ verifyObjs'[loads[s].name] = Undefined) ]_vars

\* C10 (amended): if the load completes while the named verification object
\* holds a value, the handle succeeds with exactly that value and the object
\* is deleted; and a safeLoadAndVerify call made while the object is
\* undefined is not rejected.
C10_DefinedObjectReturnedAndCleared ==
    [][ /\ \A s \in LoadsVia("safeLoadAndVerify") :
             (/\ loads[s].settledWith = Undefined
              /\ loads'[s].settledWith = Null
              /\ verifyObjs[loads[s].name] # Undefined)
             => (/\ ~vdfds[s].fired
                 /\ vdfds'[s].fired
                 /\ ~vdfds'[s].hadError
                 /\ vdfds'[s].result = verifyObjs[loads[s].name]
                 /\ verifyObjs'[loads[s].name] = Undefined)
        /\ (lastCall'.op = "safeLoadAndVerify"
              /\ verifyObjs[lastCall'.name] = Undefined)
           => lastCall'.ret = VerifyDeferred(Len(loads')) ]_vars

\* a handle succeeded with the stored value, and a later call with the same
\* name was accepted
C10_Witness ==
    \E s, t \in LoadsVia("safeLoadAndVerify") :
      /\ s < t
      /\ loads[s].name = loads[t].name
      /\ loads[s].stored # 0
      /\ vdfds[s].fired /\ ~vdfds[s].hadError
      /\ vdfds[s].result = Object(loads[s].stored)
      /\ lastCall.op = "safeLoadAndVerify"
      /\ lastCall.ret = VerifyDeferred(t)

\* C11: a safeLoadAndVerify call made while the named verification object
\* is defined returns an already failed handle with
\* VERIFY_OBJECT_ALREADY_EXISTS and attempts no load: no script node and no
\* Deferred is created, no timer is armed, no node or timer of an earlier
\* load is touched, and the verification object keeps its value.
C11_OccupiedSlotRejectedUntouched ==
    [][ (lastCall'.op = "safeLoadAndVerify"
           /\ verifyObjs[lastCall'.name] # Undefined)
        => (/\ lastCall'.ret = DeferredFail(Error(VERIFY_OBJECT_ALREADY_EXISTS))
            /\ UNCHANGED << loads, dfds, vdfds, verifyObjs, scriptsToLoad_,
                            scriptLoadingDeferred_ >>) ]_vars

\* a call was rejected and the object it found is still there, with the
\* value the script of the first load stored
C11_Witness ==
    /\ lastCall.op = "safeLoadAndVerify"
    /\ lastCall.ret.kind = "Deferred.fail"
    /\ Len(loads) = 1
    /\ loads[1].stored # 0
    /\ verifyObjs[lastCall.name] = Object(loads[1].stored)

\* C22: in the step in which the load of a safeLoadAndVerify call fails with
\* LOAD_ERROR or TIMEOUT, the handle of the call settles as a failure with
\* that same error; and at the end of every step that settles a handle of
\* safeLoadAndVerify, the named verification object is undefined, also when
\* the script had stored it.
C22_LoadFailurePassedOnAndSlotCleared ==
    [][ \A s \in LoadsVia("safeLoadAndVerify") :
          /\ (/\ loads[s].settledWith = Undefined
              /\ loads'[s].settledWith \in {Error(LOAD_ERROR), Error(TIMEOUT)})
               => /\ ~vdfds[s].fired
                  /\ vdfds'[s].fired
                  /\ vdfds'[s].hadError
                  /\ vdfds'[s].result = loads'[s].settledWith
          /\ (~vdfds[s].fired /\ vdfds'[s].fired)
               => verifyObjs'[loads[s].name] = Undefined ]_vars

\* the script stored its object, then the load timed out: the handle failed
\* with TIMEOUT and the object is gone
C22_Witness ==
    \E s \in LoadsVia("safeLoadAndVerify") :
      /\ loads[s].stored # 0
      /\ loads[s].settledWith = Error(TIMEOUT)
      /\ VerifyFailed(s, TIMEOUT)
      /\ verifyObjs[loads[s].name] = Undefined

----------------------------------------------------------------------------
(* Properties of safeLoad and its handlers, checked under SpecLoad *)

Cancelled(s) == s \in DOMAIN loads /\ loads[s].settledWith = CanceledError

\* C12: after every step, a safeLoad whose pending handle was cancelled has
\* no armed or fired timer, has its handlers detached and the removal of its
\* node queued or done, and its handle carries the cancellation and neither
\* the success value nor a LOAD_ERROR or TIMEOUT error; no later event
\* changes the handle.
C12_CancelReleasesAndSettlesNoValue ==
    [][ \A s \in DOMAIN loads' :
          loads'[s].settledWith = CanceledError
          => (/\ loads'[s].timer \in {"cleared", "none"}
              /\ ~loads'[s].handlers
              /\ (loads'[s].removeTasks > 0 \/ ~loads'[s].inDocument)
              /\ dfds'[s].fired
              /\ dfds'[s].result = CanceledError
              /\ dfds'[s].result \notin {Null, Error(LOAD_ERROR), Error(TIMEOUT)}
              /\ (Cancelled(s) => dfds'[s] = dfds[s])) ]_vars

\* a load cancelled while its timer was armed: the timer is cleared and the
\* node has left the document
C12_Witness ==
    \E s \in LoadsVia("safeLoad") :
      /\ Cancelled(s)
      /\ loads[s].duration > 0
      /\ loads[s].timer = "cleared"
      /\ ~loads[s].inDocument

\* C20: the step in which a load event, an error event or the timer settles
\* the handle of a safeLoad leaves the timer cleared or fired and the
\* handlers detached; from then on no step changes the outcome or the
\* Deferred of that load, whatever events follow.
C20_SettledOnce ==
    [][ \A s \in DOMAIN loads :
          /\ (loads[s].settledWith = Undefined /\ loads'[s].settledWith # Undefined)
               => /\ ~dfds[s].fired
                  /\ dfds'[s].fired
                  /\ dfds'[s].result = loads'[s].settledWith
                  /\ loads'[s].timer # "armed"
                  /\ (loads'[s].timer = "fired")
                       <=> (loads'[s].settledWith = Error(TIMEOUT))
                  /\ ~loads'[s].handlers
          /\ loads[s].settledWith # Undefined
               => /\ loads'[s].settledWith = loads[s].settledWith
                  /\ dfds'[s] = dfds[s]
                  /\ loads'[s].timer = loads[s].timer
                  /\ ~loads'[s].handlers ]_vars

\* one load settled by its error event, one by its load event and one by
\* its timer
C20_Witness ==
    \E s, t \in LoadsVia("safeLoad") :
      /\ loads[s].settledWith = Error(LOAD_ERROR)
      /\ loads[s].timer = "cleared"
      /\ loads[t].settledWith = Error(TIMEOUT)
      /\ dfds[s].result = Error(LOAD_ERROR)
      /\ dfds[t].result = Error(TIMEOUT)

\* the removal of the script node of load s is queued or done
RemovalScheduled(l) == l.removeTasks > 0 \/ ~l.inDocument

\* cleanupWhenDone of the options of a load; absent counts as false
CleanupWhenDone(l) ==
    "cleanupWhenDone" \in DOMAIN l.options /\ l.options.cleanupWhenDone

\* C21: after every step, the node of a load that has not settled is in the
\* document with no removal queued; the node of a load that succeeded has
\* its removal queued or done exactly when cleanupWhenDone is true; the node
\* of a load that failed with LOAD_ERROR or TIMEOUT or was cancelled has its
\* removal queued or done whatever cleanupWhenDone says.
C21_NodeCleanupPolicy ==
    [][ \A s \in DOMAIN loads' :
          LET l == loads'[s]
          IN /\ l.settledWith = Undefined
                  => (l.inDocument /\ l.removeTasks = 0)
             /\ l.settledWith = Null
                  => (RemovalScheduled(l) <=> CleanupWhenDone(l))
             /\ l.settledWith \in {Error(LOAD_ERROR), Error(TIMEOUT), CanceledError}
                  => RemovalScheduled(l) ]_vars

\* a load without cleanupWhenDone succeeded and its node is in the document,
\* while the node of a failed load without cleanupWhenDone has been removed
C21_Witness ==
    \E s, t \in LoadsVia("safeLoad") :
      /\ loads[s].settledWith = Null
      /\ ~CleanupWhenDone(loads[s])
      /\ loads[s].inDocument
      /\ loads[t].settledWith = Error(LOAD_ERROR)
      /\ ~CleanupWhenDone(loads[t])
      /\ ~loads[t].inDocument

----------------------------------------------------------------------------
(* Properties of the timer of safeLoad, checked under SpecTimer *)

\* C17: after every step, a load whose options have no timeout has a timer
\* of DEFAULT_TIMEOUT, one with a positive timeout a timer of that duration,
\* and one with a timeout of 0 or less has no timer and neither it nor its
\* handle carries TIMEOUT; the timer of every item of a batch is armed in
\* the step that starts the load of that item.
C17_TimerAsConfigured ==
    [][ \A s \in DOMAIN loads' :
          LET o == loads'[s].options
              new == s \notin DOMAIN loads
          IN /\ "timeout" \notin DOMAIN o
                  => /\ loads'[s].duration = DEFAULT_TIMEOUT
                     /\ loads'[s].timer # "none"
                     /\ new => loads'[s].timer = "armed"
             /\ ("timeout" \in DOMAIN o /\ o.timeout > 0)
                  => /\ loads'[s].duration = o.timeout
                     /\ loads'[s].timer # "none"
                     /\ new => loads'[s].timer = "armed"
             /\ ("timeout" \in DOMAIN o /\ o.timeout <= 0)
                  => /\ loads'[s].timer = "none"
                     /\ loads'[s].settledWith # Error(TIMEOUT)
                     /\ dfds'[s].result # Error(TIMEOUT) ]_vars

\* the second item of a batch is loading with its own armed timer of the
\* configured duration after the timer of the first item has fired
C17_Witness ==
    \E i \in DOMAIN batches : \E s \in LoadOf(batches[i].first) :
      \E t \in LoadOf(batches[i].first + 1) :
        /\ batches[i].last > batches[i].first
        /\ "timeout" \in DOMAIN batches[i].options
        /\ loads[s].timer = "fired"
        /\ loads[t].timer = "armed"
        /\ loads[t].duration = batches[i].options.timeout

----------------------------------------------------------------------------
(* The order of the loads of safeLoadMany, checked under SpecMany *)

\* the URIs of the loads safeLoadMany has started, in the order they started
StartedUris ==
    LET started == SelectSeq(loads, LAMBDA l : l.via = "safeLoadMany")
    IN [i \in 1..Len(started) |-> started[i].uri]

\* the URI lists of the non-empty batches, concatenated in submission order
RECURSIVE SubmittedUpTo(_)
SubmittedUpTo(i) ==
    IF i = 0 THEN << >>
    ELSE SubmittedUpTo(i - 1)
           \o [k \in 1..(batches[i].last - batches[i].first + 1)
                 |-> batches[i].first + k - 1]

SubmittedUris == SubmittedUpTo(Len(batches))

\* C19: the URIs whose loads safeLoadMany has started are, in start order,
\* a prefix of the concatenation of the submitted batches, and the queue
\* holds exactly the rest: nothing is skipped, reordered or started twice.
C19_StartedIsPrefixOfSubmitted ==
    /\ Len(StartedUris) <= Len(SubmittedUris)
    /\ \A i \in 1..Len(StartedUris) : StartedUris[i] = SubmittedUris[i]
    /\ StartedUris \o scriptsToLoad_ = SubmittedUris

\* three URIs of two batches have been started, two of them loading at once
C19_Witness ==
    /\ Len(batches) >= 2
    /\ Len(StartedUris) = 3
    /\ Cardinality(InFlight) = 2

\* the loads of safeLoadMany that have not settled and carry the
\* continuation popAndLoadNextScript
Continuing ==
    { s \in InFlight :
        \E i \in DOMAIN dfds[s].sequence :
          dfds[s].sequence[i].callback = "popAndLoadNextScript" }

Started(u) == LoadOf(u) # {}

\* C23: in every state with a pending URI, a load that has not settled
\* carries the continuation that pops the next URI; and if every started
\* load eventually settles, every URI handed to safeLoadMany is eventually
\* started and a non-empty queue eventually becomes empty.
C23_NoStrandedUris ==
    /\ [](scriptsToLoad_ # << >> => Continuing # {})
    /\ \A u \in 1..(MaxUris + 1) : (u < NextUri) ~> Started(u)
    /\ (scriptsToLoad_ # << >>) ~> (scriptsToLoad_ = << >>)

\* a batch joined a drain in progress, and every URI of every batch has been
\* started and the queue is empty
C23_Witness ==
    /\ \E j \in DOMAIN batches : batches[j].draining # {} /\ ~batches[j].idle
    /\ \A u \in 1..(NextUri - 1) : Started(u)
    /\ NextUri = MaxUris + 1
    /\ scriptsToLoad_ = << >>

\* the batch URI u was handed over in
BatchOf(u) == CHOOSE j \in DOMAIN batches : batches[j].first <= u /\ u <= batches[j].last

\* the last call up to batch j that found the queue empty: it started the
\* drain that batch j joined, or is batch j itself
DrainStarter(j) ==
    CHOOSE i \in 1..j :
      /\ ~batches[i].isAnotherModuleLoading
      /\ \A k \in (i + 1)..j : batches[k].isAnotherModuleLoading

\* C24: every URI of safeLoadMany is loaded with the options of the call
\* that started the drain its batch joined, whatever options the call that
\* appended it passed; and a call that appends to a drain in progress
\* starts no load and changes no load, timer or Deferred.
C24_LateOptionsIgnored ==
    /\ [](\A s \in LoadsVia("safeLoadMany") :
            LET o == batches[DrainStarter(BatchOf(loads[s].uri))].options
            IN /\ loads[s].options = o
               /\ loads[s].duration =
                     (IF timeoutDuration(o) > 0 THEN timeoutDuration(o) ELSE 0))
    /\ [][ (lastCall'.op = "safeLoadMany" /\ batches' # batches
              /\ scriptsToLoad_ # << >>)
           => UNCHANGED << loads, dfds, scriptLoadingDeferred_ >> ]_vars

\* a URI appended by a call with other options than the call that started
\* the drain has been loaded
C24_Witness ==
    \E s \in LoadsVia("safeLoadMany") :
      LET j == BatchOf(loads[s].uri)
      IN /\ batches[j].isAnotherModuleLoading
         /\ batches[j].options # batches[DrainStarter(j)].options
         /\ timeoutDuration(batches[j].options) # loads[s].duration
         /\ dfds[s].fired

----------------------------------------------------------------------------
(* Properties of the key encoding of IEUserData, checked under SpecKeys *)

\* the keys the mechanism holds, as get tells
StoredKeys(node) == { k \in KeyStrings : IEUserData_get(node, k).ret \notin {Null, Undefined} }

\* C25 (as claimed): for every key k, decodeKey_(encodeKey_(k)) = k and no
\* other key has the attribute name of k; set(k, v) returns normally, get(k)
\* then returns v and every other key reads as before; and the iteration of
\* the keys yields exactly the stored keys, each once and as it was given.
C25_KeyRoundTripLossless ==
    [][ /\ (storeCall'.via = "IEUserData"
              /\ storeCall'.op \in {"set", "get", "remove"})
           => LET k == storeCall'.key
              IN /\ storeCall'.thrown = NoError
                 /\ decodeKey_(encodeKey_(k)) = k
                 /\ \A k2 \in KeyStrings \ {k} : encodeKey_(k2) # encodeKey_(k)
        /\ (storeCall'.via = "IEUserData" /\ storeCall'.op = "set")
           => LET k == storeCall'.key
              IN /\ IEUserData_get(storageNode_', k).ret = storeCall'.value
                 /\ \A k2 \in KeyStrings \ {k} :
                      IEUserData_get(storageNode_', k2).ret =
                        IEUserData_get(storageNode_, k2).ret
        /\ (storeCall'.via = "IEUserData" /\ storeCall'.op = "keys")
           => LET keys == storeCall'.ret
              IN /\ { keys[i] : i \in DOMAIN keys } = StoredKeys(storageNode_)
                 /\ Len(keys) = Cardinality(StoredKeys(storageNode_)) ]_vars

----------------------------------------------------------------------------
(* Properties of PrefixedMechanism, checked under SpecPrefixed *)

\* what get(key) and a full iteration through the wrapper of a prefix
\* return when the storage node is node
GetThrough(node, prefix, key) ==
    PrefixedMechanism_get(PrefixedMechanism(prefix), node, key).ret

IterateThrough(node, prefix, opt_keys) ==
    PrefixedMechanism_iterate(PrefixedMechanism(prefix), node, opt_keys, 0)

\* the last call was made through the wrapper of this prefix
CalledThrough(call, prefix) ==
    call.via = "PrefixedMechanism" /\ call.prefix = prefix

\* C13 (as claimed): through the wrapper of any prefix, get(k) returns v
\* after set(k, v) and null after remove(k), and no step other than a set
\* or remove of k through that wrapper changes what get(k) returns.
C13_GetReturnsLastSet ==
    [][ \A p \in Prefixes, k \in WrapperKeys :
          LET mine == /\ CalledThrough(storeCall', p)
                      /\ storeCall'.key = k
                      /\ storeCall'.op \in {"set", "remove"}
          IN /\ (mine /\ storeCall'.op = "set")
                  => GetThrough(storageNode_', p, k) = storeCall'.value
             /\ (mine /\ storeCall'.op = "remove")
                  => GetThrough(storageNode_', p, k) = Null
             /\ ~mine
                  => GetThrough(storageNode_', p, k) = GetThrough(storageNode_, p, k)
      ]_vars

StartsWith(str, start) ==
    Len(str) >= Len(start) /\ SubSeq(str, 1, Len(start)) = start

\* the entries of the wrapped mechanism whose key starts with prefix::, in
\* the order of the mechanism
Matching(node, prefix) ==
    SelectSeq(node.attributes,
              LAMBDA a : StartsWith(decodeKey_(a.nodeName), prefix \o << ":", ":" >>))

\* C14: a full iteration through the wrapper of a prefix yields one item for
\* each entry of the wrapped mechanism whose key starts with prefix::, in
\* the order of the mechanism, and nothing else: the key without prefix::
\* in key mode, the value of the entry in value mode.
C14_IterationYieldsNamespace ==
    (storeCall.via = "PrefixedMechanism" /\ storeCall.op \in {"keys", "values"})
    => LET matching == Matching(storageNode_, storeCall.prefix)
           strip == Len(storeCall.prefix) + 2
       IN storeCall.ret =
            [i \in 1..Len(matching) |->
               IF storeCall.op = "keys"
               THEN LET key == decodeKey_(matching[i].nodeName)
                    IN SubSeq(key, strip + 1, Len(key))
               ELSE matching[i].nodeValue]

\* an iteration that skipped two entries in a row, one without prefix and
\* one of another namespace, and yielded the entry after them
C14_Witness ==
    /\ storeCall.via = "PrefixedMechanism"
    /\ storeCall.op \in {"keys", "values"}
    /\ Len(storageNode_.attributes) = 3
    /\ Len(storeCall.ret) = 1
    /\ Matching(storageNode_, storeCall.prefix) = << storageNode_.attributes[3] >>

\* the attributes of node other than the one named name, in order
OtherAttributes(node, name) ==
    SelectSeq(node.attributes, LAMBDA a : a.nodeName # name)

\* C15: a set, get or remove through a wrapper makes one call on the wrapped
\* mechanism, the same operation on the key prefix::key; its effect, result
\* and error are those of that call, every other entry is as it was, and get
\* and iteration leave the wrapped mechanism as it was.
C15_OneBackendCallOnPrefixedKey ==
    [][ storeCall'.via = "PrefixedMechanism" =>
          LET call == storeCall'
              raw == call.prefix \o << ":", ":" >> \o call.key
              backend ==
                  CASE call.op = "set" ->
                         IEUserData_set(storageNode_, raw, call.value, call.saveOk)
                    [] call.op = "remove" ->
                         IEUserData_remove(storageNode_, raw, call.saveOk)
                    [] OTHER -> IEUserData_get(storageNode_, raw)
          IN /\ call.op \in {"set", "get", "remove"}
                  => /\ Len(call.log) = 1
                     /\ call.log[1].op = call.op
                     /\ call.log[1].key = raw
                     /\ call.log[1].value = call.value
                     /\ storageNode_' = backend.node
                     /\ call.ret = backend.ret
                     /\ call.thrown = backend.thrown
                     /\ (~call.saveOk) => call.thrown = QUOTA_EXCEEDED
                     /\ OtherAttributes(storageNode_', encodeKey_(raw))
                          = OtherAttributes(storageNode_, encodeKey_(raw))
             /\ call.op \in {"get", "keys", "values"}
                  => storageNode_' = storageNode_ ]_vars

\* a set through a wrapper whose save failed, with two other entries stored
C15_Witness ==
    /\ storeCall.via = "PrefixedMechanism"
    /\ storeCall.op = "set"
    /\ storeCall.thrown = QUOTA_EXCEEDED
    /\ Len(storageNode_.attributes) = 3

\* C16 (as claimed): a set or remove through the wrapper of one prefix
\* changes neither what get returns for any key nor what an iteration
\* yields through the wrapper of a different prefix.
C16_WrappersIsolated ==
    [][ \A p1, p2 \in Prefixes :
          (/\ p1 # p2
           /\ CalledThrough(storeCall', p1)
           /\ storeCall'.op \in {"set", "remove"})
          => /\ \A k \in WrapperKeys :
                  GetThrough(storageNode_', p2, k) = GetThrough(storageNode_, p2, k)
             /\ \A opt_keys \in BOOLEAN :
                  IterateThrough(storageNode_', p2, opt_keys)
                    = IterateThrough(storageNode_, p2, opt_keys) ]_vars

----------------------------------------------------------------------------
(* Properties of IEUserData, checked under SpecIE *)

\* C18: a set, remove or clear whose save fails throws QUOTA_EXCEEDED and
\* leaves the mechanism available; a call whose save succeeds throws nothing
\* and has its effect, also when the call before it failed.
C18_QuotaFailureIsPerOperation ==
    [][ (storeCall'.via = "IEUserData" /\ isAvailable(storageNode_)) =>
          LET call == storeCall'
              name == encodeKey_(call.key)
          IN /\ isAvailable(storageNode_')
             /\ (call.op \in {"set", "remove", "clear"} /\ ~call.saveOk)
                  => call.thrown = QUOTA_EXCEEDED
             /\ (call.op \in {"set", "remove", "clear"} /\ call.saveOk)
                  => call.thrown = NoError
             /\ call.op = "set"
                  => getAttribute(storageNode_', name) = call.value
             /\ call.op = "remove"
                  => getAttribute(storageNode_', name) = Null
             /\ call.op = "clear"
                  => storageNode_'.attributes = << >>
             /\ call.op = "get"
                  => /\ call.thrown = NoError
                     /\ call.ret = getAttribute(storageNode_, name)
                     /\ storageNode_' = storageNode_ ]_vars

\* a set that completed right after a call that threw QUOTA_EXCEEDED
C18_Witness ==
    /\ storeCall.via = "IEUserData"
    /\ storeCall.op = "set"
    /\ storeCall.afterFailure
    /\ storeCall.thrown = NoError
    /\ isAvailable(storageNode_)
    /\ getAttribute(storageNode_, encodeKey_(storeCall.key)) = storeCall.value

=============================================================================
